---------------------------- MODULE Spec2Model ----------------------------
(***************************************************************************)
(* Usage metering of the monetized chat service.                           *)
(*                                                                         *)
(* AuthSystem (src/app/auth_system.py) keeps, per user, a plan and a       *)
(* usage counter {daily_count, last_reset}.  The /api/chat/ask handler     *)
(* (src/app/main_monetized.py) calls check_rate_limit, awaits the LLM      *)
(* backend and, when the backend succeeded, calls increment_usage.         *)
(* Flask serves every request on its own thread, so the statements of two  *)
(* handlers interleave; each action below is one statement that reads or   *)
(* writes the shared users_db.                                             *)
(*                                                                         *)
(* Time is counted in hours since 00:00 UTC of day 0.                      *)
(***************************************************************************)
EXTENDS Integers, Sequences, FiniteSets, TLC

(***************************************************************************)
(* Bounds of the model.                                                    *)
(***************************************************************************)
MaxCount == 11          \* no request is started once a window served more
MaxPlanChanges == 1     \* checkout_completed webhooks that are delivered
EnvFreeLimit == 1       \* FREE_TIER_DAILY_LIMIT set in .env.production
EnvProLimit == 2        \* PRO_TIER_DAILY_LIMIT set in .env.production
EnvBusinessLimit == 3   \* BUSINESS_TIER_DAILY_LIMIT set in .env.production

(***************************************************************************)
(* Program constants.                                                      *)
(***************************************************************************)
HoursPerDay == 24            \* datetime.date(): one calendar day
jwt_expiration_hours == 24   \* JWT_EXPIRATION_HOURS, default '24'
DefaultFreeLimit == 10       \* os.getenv('FREE_TIER_DAILY_LIMIT', '10')
DefaultProLimit == 100       \* os.getenv('PRO_TIER_DAILY_LIMIT', '100')
DefaultBusinessLimit == 1000 \* os.getenv('BUSINESS_TIER_DAILY_LIMIT', '1000')
FallbackLimit == 10          \* limits.get(user['plan'], 10)

GeminiPerMinute == 2         \* rate_limits['gemini']['requests_per_minute']
ClaudePerMinute == 3         \* rate_limits['claude']['requests_per_minute']
LlmWindow == 60              \* one_minute_ago = current_time - 60
RetryAfter == 60             \* 'retry_after': 60
cache_limit == 2             \* `if len(self.cache) > 100`, scaled down
MaxSessions == 3             \* no login once so many sessions are live
cache_ttl == 300             \* self.cache_ttl = 300
requests_per_minute == 2     \* RateLimiter(requests_per_minute=...)
requests_per_hour == 3       \* RateLimiter(requests_per_hour=...)
rate_limit_requests == 2     \* SecurityConfig(rate_limit_requests=...)
rate_limit_window == 3600    \* SecurityConfig.rate_limit_window, seconds
max_request_length == 10000  \* SecurityConfig.max_request_length
MinuteWindow == 60           \* _clean_old_requests(..., 60)
HourWindow == 3600           \* _clean_old_requests(..., 3600)
TooManyRequests == 429       \* status.HTTP_429_TOO_MANY_REQUESTS
PayloadTooLarge == 413       \* status_code=413

Hours == {0, 12, 24}               \* the readings of datetime.now(), in hours
Instants == {0, 60, 3600}      \* the readings of time.time()
Moments == {0, 300}            \* two readings cache_ttl apart
ContentLengths == {0, 10001}       \* the content-length headers sent
Clients == {"10.0.0.1"}            \* request.client.host
Emails == {"a@x", "b@x"}
UserPlans == {"free", "pro", "business", "enterprise"}   \* user_plan arguments
UserIds == {"u1", "u2"}            \* the user_id a request of /ask-enhanced names
Answers == {"r1"}                  \* what _generate_ai_response returns
Callers == {"c1", "c2"}            \* callers of generate_response in flight
Askers == {"q1", "q2"}             \* requests of /ask-enhanced in flight
PaidPlans == {"pro", "business"}   \* create_checkout: plan in ['pro', 'business']
Solo == {"a@x"}                   \* the identity whose requests overlap
Handlers == {"h1", "h2"}           \* request handlers that can be in flight at once

VARIABLES
    environ,        \* os.environ: the limits set in the environment, if any
    now,            \* datetime.now(timezone.utc), in hours
    users_db,       \* AuthSystem.users_db: email -> user record
    pc,             \* per handler: the statement it is about to execute
    current_user,   \* per handler: request.current_user
    today,          \* per handler: local `today` of check_rate_limit
    rate_check,     \* per handler: local `rate_check` of ask_question
    llm_response,   \* per handler: local `llm_response` of ask_question
    loaded,         \* per handler: the daily_count read by `+= 1`
    response,       \* per handler: the HTTP response of ask_question
    found,          \* history: per handler, what its check found
    plan_changes,   \* history: checkout_completed webhooks delivered so far
    served,         \* history: per user, 200 responses since the last reset
    window_at,      \* history: per user, the time last_reset was written
    unix_time,      \* time.time(), in seconds
    requests,       \* security.RateLimiter.requests: ip -> timestamps
    minute_buckets, \* security_middleware.RateLimiter.minute_buckets
    hour_buckets,   \* security_middleware.RateLimiter.hour_buckets
    gate_result,    \* how the last call of an IP rate limiter ended
    request_history,\* LLMManager.request_history: backend -> timestamps
    call,           \* per caller of LLMManager.generate_response: its frame
    cache,          \* FastChatbot.cache: the dict, in insertion order
    asked,          \* per request of process_query_fast: its frame
    selected,       \* history: plan -> the backends ever selected for it
    sessions,       \* AuthSystem.sessions: the dict, in insertion order
    auth_result     \* how the last call of register_user, login, logout or
                    \* of the require_auth decorator ended

vars == <<environ, now, users_db, pc, current_user, today, rate_check,
          llm_response, loaded, response, found, plan_changes, served,
          window_at, unix_time, requests, minute_buckets, hour_buckets,
          gate_result, request_history, call, cache, asked, selected,
          sessions, auth_result>>

\* the state of LLMManager and of FastChatbot
services == <<request_history, call, cache, asked, selected>>

limiters == <<unix_time, requests, minute_buckets, hour_buckets, gate_result>>

\* the sessions of AuthSystem and the outcome of its last call
accounts == <<sessions, auth_result>>

\* the locals of the handlers other than pc
frames == <<current_user, today, rate_check, llm_response, loaded, response,
           found>>

None == [none |-> TRUE]
Idle == [at |-> "idle"]
NoDay == -1
NoCount == -1

(***************************************************************************)
(* Pure helpers.                                                           *)
(***************************************************************************)
\* datetime.now(timezone.utc).date(): the calendar day of an instant
Date(t) == t \div HoursPerDay

\* os.getenv(name, default)
getenv(name, default) == IF name \in DOMAIN environ THEN environ[name] ELSE default

\* the `limits` dict of check_rate_limit
limits ==
    [free     |-> getenv("FREE_TIER_DAILY_LIMIT", DefaultFreeLimit),
     pro      |-> getenv("PRO_TIER_DAILY_LIMIT", DefaultProLimit),
     business |-> getenv("BUSINESS_TIER_DAILY_LIMIT", DefaultBusinessLimit)]

\* a faulty lookup: an unrecognized plan gets no allowance at all
limit_of_strict(plan) == IF plan \in DOMAIN limits THEN limits[plan] ELSE 0

\* limits.get(user['plan'], 10)
limit_of(plan) == IF plan \in DOMAIN limits THEN limits[plan] ELSE FallbackLimit

\* a faulty test: resets only once a whole calendar day was skipped
needs_reset_skipped(last_reset, day) == day > last_reset + 1

\* a faulty test: never starts a new window
never_reset(last_reset, day) == FALSE

\* `if user['usage']['last_reset'] != today`
needs_reset(last_reset, day) == last_reset # day

\* `if current_count >= limit`
limit_reached(current_count, limit) == current_count >= limit

\* a faulty selection: consults the load of the backend
get_llm_by_load(user_plan) ==
    IF user_plan = "business" /\ Len(request_history["claude"]) < ClaudePerMinute
    THEN "claude" ELSE "gemini"

\* a faulty selection: no backend for a plan that is no tier
get_llm_for_tier(user_plan) ==
    IF user_plan = "business" THEN "claude"
    ELSE IF user_plan \in {"free", "pro"} THEN "gemini" ELSE "ConfigurationError"

\* LLMManager.get_llm_for_user
get_llm_for_user(user_plan) == IF user_plan = "business" THEN "claude" ELSE "gemini"

\* `for email, user in self.users_db.items(): if user['user_id'] == user_id`
find_user(user_id) == {e \in DOMAIN users_db : users_db[e].user_id = user_id}

\* the user a handler works on
EmailOf(p) == CHOOSE e \in find_user(current_user[p].user_id) : TRUE

Active(p) == pc[p] # "idle"

(***************************************************************************)
(* The process starts with the limits of .env.production in its            *)
(* environment (Init) or with none of them set (InitDefault).              *)
(***************************************************************************)
Configured ==
    [FREE_TIER_DAILY_LIMIT |-> EnvFreeLimit,
     PRO_TIER_DAILY_LIMIT |-> EnvProLimit,
     BUSINESS_TIER_DAILY_LIMIT |-> EnvBusinessLimit]

Unset == [x \in {} |-> 0]

Constructed ==
    /\ now = 0
    /\ users_db = [e \in {} |-> None]
    /\ pc = [p \in Handlers |-> "idle"]
    /\ current_user = [p \in Handlers |-> None]
    /\ today = [p \in Handlers |-> NoDay]
    /\ rate_check = [p \in Handlers |-> None]
    /\ llm_response = [p \in Handlers |-> None]
    /\ loaded = [p \in Handlers |-> NoCount]
    /\ response = [p \in Handlers |-> None]
    /\ found = [p \in Handlers |-> None]
    /\ plan_changes = 0
    /\ served = [e \in {} |-> 0]
    /\ window_at = [e \in {} |-> 0]
    /\ unix_time = 0
    /\ requests = [ip \in {} |-> <<>>]
    /\ minute_buckets = [ip \in {} |-> <<>>]
    /\ hour_buckets = [ip \in {} |-> <<>>]
    /\ gate_result = None
    /\ request_history = [llm \in {"gemini", "claude"} |-> <<>>]
    /\ call = [c \in Callers |-> Idle]
    /\ cache = <<>>
    /\ asked = [r \in Askers |-> Idle]
    /\ selected = [plan \in UserPlans |-> {}]
    /\ sessions = <<>>
    /\ auth_result = None

Init == environ = Configured /\ Constructed

InitDefault == environ = Unset /\ Constructed

(***************************************************************************)
(* The clock.                                                              *)
(***************************************************************************)
TickTo(t) ==
    /\ t > now
    /\ now' = t
    /\ UNCHANGED <<services, limiters, environ, users_db, pc, frames, plan_changes, accounts,
                   served, window_at>>

Tick == \E t \in Hours : TickTo(t)

\* the passwords users register with, and those tried at login
Passwords == {"pw"}
Attempts == {"pw", "guess"}

\* bcrypt.hashpw(password, salt): not the password, and checked by checkpw
hash_password(password) == [bcrypt |-> password]
verify_password(password, hashed) == hashed.bcrypt = password

\* a faulty numbering: every user gets the first id
first_user_id(db) == 1

\* user_id = f"user_{len(self.users_db) + 1}"
new_user_id(db) == Cardinality(DOMAIN db) + 1

\* what register_user returns on success: success True and the new user_id
registered(user_id) ==
    [op |-> "register_user", success |-> TRUE, user_id |-> user_id]

(***************************************************************************)
(* AuthSystem.register_user                                                *)
(***************************************************************************)
register_user(email) ==
    \E password \in Passwords :
       LET user_id == new_user_id(users_db)
       IN  /\ email \notin DOMAIN users_db
           /\ users_db' = [e \in DOMAIN users_db \cup {email} |->
                             IF e = email
                             THEN [user_id     |-> user_id,
                                   password    |-> hash_password(password),
                                   plan        |-> "free",
                                   daily_count |-> 0,
                                   last_reset  |-> Date(now)]
                             ELSE users_db[e]]
           /\ served' = [e \in DOMAIN users_db \cup {email} |->
                             IF e = email THEN 0 ELSE served[e]]
           /\ window_at' = [e \in DOMAIN users_db \cup {email} |->
                             IF e = email THEN now ELSE window_at[e]]
           /\ auth_result' = registered(user_id)
           /\ UNCHANGED <<services, limiters, environ, now, pc, frames,
                          plan_changes, sessions>>

(***************************************************************************)
(* stripe_webhook: checkout_completed calls AuthSystem.update_user_plan    *)
(***************************************************************************)
update_user_plan(email, new_plan) ==
    /\ email \in DOMAIN users_db
    /\ plan_changes < MaxPlanChanges
    /\ plan_changes' = plan_changes + 1
    /\ users_db' = [users_db EXCEPT ![email].plan = new_plan]
    /\ UNCHANGED <<services, limiters, accounts, environ, now, pc, frames, served,
                   window_at>>

(***************************************************************************)
(* ask_question: the handler is entered with request.current_user, a copy  *)
(* of the caller's user record.                                            *)
(***************************************************************************)
ask_question(p, email) ==
    /\ pc[p] = "idle"
    /\ email \in DOMAIN users_db
    /\ served[email] <= MaxCount
    /\ pc' = [pc EXCEPT ![p] = "check"]
    /\ current_user' = [current_user EXCEPT ![p] =
                          [user_id |-> users_db[email].user_id,
                           plan    |-> users_db[email].plan]]
    /\ UNCHANGED <<services, limiters, environ, now, users_db, today, rate_check, llm_response,
                   loaded, response, found, plan_changes, accounts, served, window_at>>

\* the same handler, entered only when no other request of the same user
\* is in flight: the calls of one identity follow one another
ask_question_consecutive(p, email) ==
    /\ email \in DOMAIN users_db
    /\ \A q \in Handlers :
          Active(q) => current_user[q].user_id # users_db[email].user_id
    /\ ask_question(p, email)

(***************************************************************************)
(* AuthSystem.check_rate_limit, statement by statement                     *)
(***************************************************************************)
\* history: whether a call comes a full day or more after the user's window
\* was started, and whether it then finds the count at the quota
window_state(user, started) ==
    LET late == now - started >= HoursPerDay
    IN  [late |-> late,
         full |-> late /\ user.daily_count >= limit_of(user.plan)]

\* today = ...date().isoformat(); if user['usage']['last_reset'] != today
check_rate_limit_today(p) ==
    /\ pc[p] = "check"
    /\ today' = [today EXCEPT ![p] = Date(now)]
    /\ pc' = [pc EXCEPT ![p] =
                IF needs_reset(users_db[EmailOf(p)].last_reset, Date(now))
                THEN "reset_count" ELSE "decide"]
    /\ found' = [found EXCEPT ![p] = window_state(users_db[EmailOf(p)],
                                                  window_at[EmailOf(p)])]
    /\ UNCHANGED <<services, limiters, environ, now, users_db, current_user, rate_check,
                   llm_response, loaded, response, plan_changes, accounts, served,
                   window_at>>

\* user['usage']['daily_count'] = 0
check_rate_limit_reset_count(p) ==
    /\ pc[p] = "reset_count"
    /\ users_db' = [users_db EXCEPT ![EmailOf(p)].daily_count = 0]
    /\ served' = [served EXCEPT ![EmailOf(p)] = 0]
    /\ pc' = [pc EXCEPT ![p] = "reset_date"]
    /\ UNCHANGED <<services, limiters, environ, now, frames, plan_changes, accounts, window_at>>

\* user['usage']['last_reset'] = today
check_rate_limit_reset_date(p) ==
    /\ pc[p] = "reset_date"
    /\ users_db' = [users_db EXCEPT ![EmailOf(p)].last_reset = today[p]]
    /\ window_at' = [window_at EXCEPT ![EmailOf(p)] = now]
    /\ pc' = [pc EXCEPT ![p] = "decide"]
    /\ UNCHANGED <<services, limiters, environ, now, frames, plan_changes, accounts, served>>

\* the dict check_rate_limit returns for a user
rate_limit_result(user) ==
    LET limit == limit_of(user.plan)
        current_count == user.daily_count
    IN  IF limit_reached(current_count, limit)
        THEN [success |-> FALSE, error |-> "Daily limit reached",
              limit |-> limit, used |-> current_count, plan |-> user.plan]
        ELSE [success |-> TRUE, limit |-> limit, used |-> current_count,
              remaining |-> limit - current_count, plan |-> user.plan]

\* a faulty lookup: the quota of the plan the request was authenticated with
requested_user(p) == [users_db[EmailOf(p)] EXCEPT !.plan = current_user[p].plan]

\* `user = self.users_db[email]` of check_rate_limit: the stored record
checked_user(p) == users_db[EmailOf(p)]

\* the 429 response of ask_question
denied_response(rc) ==
    [status |-> 429, error |-> rc.error, limit |-> rc.limit, used |-> rc.used,
     plan |-> rc.plan]

\* limit = limits.get(user['plan'], 10) ... return {...};
\* ask_question: if not rate_check['success']: return ..., 429
check_rate_limit_decide(p) ==
    /\ pc[p] = "decide"
    /\ LET rc == rate_limit_result(checked_user(p))
       IN  /\ rate_check' = [rate_check EXCEPT ![p] = rc]
           /\ IF rc.success
              THEN /\ pc' = [pc EXCEPT ![p] = "llm"]
                   /\ UNCHANGED response
              ELSE /\ pc' = [pc EXCEPT ![p] = "done"]
                   /\ response' = [response EXCEPT ![p] = denied_response(rc)]
    /\ UNCHANGED <<services, limiters, environ, now, users_db, current_user, today,
                   llm_response, loaded, found, plan_changes, accounts, served, window_at>>

(***************************************************************************)
(* LLMManager.generate_response: the awaited backend call returns, with    *)
(* success or with failure (backend error or backend rate limit).          *)
(***************************************************************************)
\* a faulty handler: counts the request whatever the backend returned
after_generate_always(success) == "increment_load"

\* where ask_question continues after the backend call:
\* `if not llm_response['success']: return jsonify(llm_response), 500`
after_generate(success) == IF success THEN "increment_load" ELSE "done"

generate_response(p, success) ==
    /\ pc[p] = "llm"
    /\ llm_response' = [llm_response EXCEPT ![p] =
                          [success |-> success,
                           llm_used |-> get_llm_for_user(current_user[p].plan)]]
    /\ pc' = [pc EXCEPT ![p] = after_generate(success)]
    /\ response' = [response EXCEPT ![p] =
                      IF after_generate(success) = "done"
                      THEN [status |-> 500] ELSE response[p]]
    /\ UNCHANGED <<services, limiters, environ, now, users_db, current_user, today, rate_check,
                   loaded, found, plan_changes, accounts, served, window_at>>

(***************************************************************************)
(* AuthSystem.increment_usage: user['usage']['daily_count'] += 1 reads the *)
(* counter and then stores the sum.                                        *)
(***************************************************************************)
increment_usage_load(p) ==
    /\ pc[p] = "increment_load"
    /\ loaded' = [loaded EXCEPT ![p] = users_db[EmailOf(p)].daily_count]
    /\ pc' = [pc EXCEPT ![p] = "increment_store"]
    /\ UNCHANGED <<services, limiters, environ, now, users_db, current_user, today, rate_check,
                   llm_response, response, found, plan_changes, accounts, served,
                   window_at>>

\* a faulty increment: two units for one request
incremented_twice(count) == count + 2

\* the value `+= 1` stores
incremented(count) == count + 1

\* a faulty 200 body: reports the allowance check_rate_limit returned, as it was
ok_response_stale(rc, llm, plan) ==
    [status |-> 200, llm_used |-> llm.llm_used, used |-> rc.used + 1,
     limit |-> rc.limit, remaining |-> rc.remaining, plan |-> plan]

\* the 200 response of ask_question
ok_response(rc, llm, plan) ==
    [status |-> 200, llm_used |-> llm.llm_used, used |-> rc.used + 1,
     limit |-> rc.limit, remaining |-> rc.remaining - 1, plan |-> plan]

increment_usage_store(p) ==
    /\ pc[p] = "increment_store"
    /\ users_db' = [users_db EXCEPT
                      ![EmailOf(p)].daily_count = incremented(loaded[p])]
    /\ served' = [served EXCEPT ![EmailOf(p)] = @ + 1]
    /\ response' = [response EXCEPT ![p] =
                      ok_response(rate_check[p], llm_response[p],
                                  current_user[p].plan)]
    /\ pc' = [pc EXCEPT ![p] = "done"]
    /\ UNCHANGED <<services, limiters, environ, now, current_user, today, rate_check,
                   llm_response, loaded, found, plan_changes, accounts, window_at>>

\* the response is sent and the handler's frame is gone
ask_question_return(p) ==
    /\ pc[p] = "done"
    /\ pc' = [pc EXCEPT ![p] = "idle"]
    /\ current_user' = [current_user EXCEPT ![p] = None]
    /\ today' = [today EXCEPT ![p] = NoDay]
    /\ rate_check' = [rate_check EXCEPT ![p] = None]
    /\ llm_response' = [llm_response EXCEPT ![p] = None]
    /\ loaded' = [loaded EXCEPT ![p] = NoCount]
    /\ response' = [response EXCEPT ![p] = None]
    /\ found' = [found EXCEPT ![p] = None]
    /\ UNCHANGED <<services, limiters, environ, now, users_db, plan_changes, accounts, served, window_at>>

(***************************************************************************)
(* Specifications.                                                         *)
(***************************************************************************)
Step(p) ==
    \/ check_rate_limit_today(p)
    \/ check_rate_limit_reset_count(p)
    \/ check_rate_limit_reset_date(p)
    \/ check_rate_limit_decide(p)
    \/ \E success \in BOOLEAN : generate_response(p, success)
    \/ increment_usage_load(p)
    \/ increment_usage_store(p)
    \/ ask_question_return(p)

\* the requests of one user run concurrently
Next ==
    \/ Tick
    \/ \E email \in Solo : register_user(email)
    \/ \E email \in Emails, new_plan \in PaidPlans : update_user_plan(email, new_plan)
    \/ \E p \in Handlers, email \in Emails : ask_question(p, email)
    \/ \E p \in Handlers : Step(p)

\* requests of different users run concurrently, the requests of one user
\* follow one another
NextSeq ==
    \/ Tick
    \/ \E email \in Emails : register_user(email)
    \/ \E email \in Emails, new_plan \in PaidPlans : update_user_plan(email, new_plan)
    \/ \E p \in Handlers, email \in Emails : ask_question_consecutive(p, email)
    \/ \E p \in Handlers : Step(p)

Spec == Init /\ [][Next]_vars

SpecSeq == Init /\ [][NextSeq]_vars

\* one user whose requests follow one another
NextSolo ==
    \/ Tick
    \/ \E email \in Solo : register_user(email)
    \/ \E email \in Emails, new_plan \in PaidPlans : update_user_plan(email, new_plan)
    \/ \E p \in Handlers, email \in Emails : ask_question_consecutive(p, email)
    \/ \E p \in Handlers : Step(p)

SpecDefault == InitDefault /\ [][NextSolo]_vars


(***************************************************************************)
(* Users who keep calling while the clock keeps advancing: every handler   *)
(* that has started runs to its return, the clock reaches every reading,   *)
(* and a new call of a user is started whenever one can be.                *)
(***************************************************************************)
NextLive ==
    \/ Tick
    \/ \E email \in Emails : register_user(email)
    \/ \E p \in Handlers, email \in Emails : ask_question_consecutive(p, email)
    \/ \E p \in Handlers : Step(p)

SpecLive ==
    /\ Init
    /\ [][NextLive]_vars
    /\ WF_vars(Tick)
    /\ \A p \in Handlers : WF_vars(Step(p))
    /\ \A email \in Emails :
          WF_vars(\E p \in Handlers : ask_question_consecutive(p, email))

(***************************************************************************)
(* The IP rate limiters: security.RateLimiter behind                       *)
(* SecurityMiddleware.process_request and check_rate_limit(request), and   *)
(* security_middleware.RateLimiter.check_rate_limit.  None of them awaits, *)
(* so on the event loop each call is one step.                             *)
(***************************************************************************)
AdvanceTo(t) ==
    /\ t > unix_time
    /\ unix_time' = t
    /\ UNCHANGED <<services, environ, now, users_db, pc, frames, plan_changes, accounts, served,
                   window_at, requests, minute_buckets, hour_buckets,
                   gate_result>>

Advance == \E t \in Instants : AdvanceTo(t)

\* [t for t in bucket if current_time - t < time_window]
_clean_old_requests(bucket, time_window) ==
    SelectSeq(bucket, LAMBDA t : unix_time - t < time_window)

\* defaultdict(list)[ip], and `self.requests[ip] if ip in self.requests`
bucket_of(buckets, ip) == IF ip \in DOMAIN buckets THEN buckets[ip] ELSE <<>>

put(buckets, ip, bucket) ==
    [k \in DOMAIN buckets \cup {ip} |-> IF k = ip THEN bucket ELSE buckets[k]]

recent_requests(ip) ==
    _clean_old_requests(bucket_of(requests, ip), rate_limit_window)

\* the value is_allowed returns for what it finds in the window
is_allowed_value(ip) == ~(Len(recent_requests(ip)) >= rate_limit_requests)

\* a faulty limiter: records the rejected request too
is_allowed_requests_always(ip) ==
    put(requests, ip, Append(recent_requests(ip), unix_time))

\* the dict self.requests after is_allowed(ip)
is_allowed_requests(ip) ==
    put(requests, ip,
        IF is_allowed_value(ip) THEN Append(recent_requests(ip), unix_time)
                                ELSE recent_requests(ip))

returned(gate, value, exhausted) ==
    [gate |-> gate, raised |-> FALSE, value |-> value, exhausted |-> exhausted]

raise_HTTPException(gate, status_code, exhausted) ==
    [gate |-> gate, raised |-> TRUE, status_code |-> status_code,
     exhausted |-> exhausted]

\* security.check_rate_limit(request): the bare is_allowed
is_allowed(ip) ==
    /\ requests' = is_allowed_requests(ip)
    /\ gate_result' = returned("is_allowed", is_allowed_value(ip),
                               Len(recent_requests(ip)) >= rate_limit_requests)
    /\ UNCHANGED <<services, environ, now, users_db, pc, frames, plan_changes, accounts, served,
                   window_at, unix_time, minute_buckets, hour_buckets>>

\* a faulty middleware: lets the denied request through with a value
process_request_quiet(allowed, content_length, exhausted) ==
    IF content_length > max_request_length
    THEN raise_HTTPException("process_request", PayloadTooLarge, exhausted)
    ELSE returned("process_request", "None", exhausted)

process_request_result(allowed, content_length, exhausted) ==
    IF ~allowed
    THEN raise_HTTPException("process_request", TooManyRequests, exhausted)
    ELSE IF content_length > max_request_length
         THEN raise_HTTPException("process_request", PayloadTooLarge, exhausted)
         ELSE returned("process_request", "None", exhausted)

process_request(ip, content_length) ==
    /\ requests' = is_allowed_requests(ip)
    /\ gate_result' = process_request_result(
                          is_allowed_value(ip), content_length,
                          Len(recent_requests(ip)) >= rate_limit_requests)
    /\ UNCHANGED <<services, environ, now, users_db, pc, frames, plan_changes, accounts, served,
                   window_at, unix_time, minute_buckets, hour_buckets>>

\* a faulty check: the hourly limit is not consulted
check_rate_limit_by_minute(minute_bucket, hour_bucket) ==
    IF Len(minute_bucket) >= requests_per_minute
    THEN raise_HTTPException("check_rate_limit", TooManyRequests, TRUE)
    ELSE returned("check_rate_limit", TRUE, FALSE)

check_rate_limit_result(minute_bucket, hour_bucket) ==
    LET exhausted == \/ Len(minute_bucket) >= requests_per_minute
                     \/ Len(hour_bucket) >= requests_per_hour
    IN  IF Len(minute_bucket) >= requests_per_minute
        THEN raise_HTTPException("check_rate_limit", TooManyRequests, exhausted)
        ELSE IF Len(hour_bucket) >= requests_per_hour
             THEN raise_HTTPException("check_rate_limit", TooManyRequests,
                                      exhausted)
             ELSE returned("check_rate_limit", TRUE, exhausted)

check_rate_limit(client_id) ==
    LET minute_bucket == _clean_old_requests(
                             bucket_of(minute_buckets, client_id), MinuteWindow)
        hour_bucket == _clean_old_requests(
                             bucket_of(hour_buckets, client_id), HourWindow)
        result == check_rate_limit_result(minute_bucket, hour_bucket)
    IN  /\ gate_result' = result
        /\ minute_buckets' = put(minute_buckets, client_id,
               IF result.raised THEN minute_bucket
                                ELSE Append(minute_bucket, unix_time))
        /\ hour_buckets' = put(hour_buckets, client_id,
               IF result.raised THEN hour_bucket
                                ELSE Append(hour_bucket, unix_time))
        /\ UNCHANGED <<services, environ, now, users_db, pc, frames, plan_changes, accounts,
                       served, window_at, unix_time, requests>>

NextGates ==
    \/ Tick
    \/ Advance
    \/ \E email \in Solo : register_user(email)
    \/ \E p \in Handlers, email \in Emails : ask_question_consecutive(p, email)
    \/ \E p \in Handlers : Step(p)
    \/ \E ip \in Clients : is_allowed(ip)
    \/ \E ip \in Clients, content_length \in ContentLengths :
          process_request(ip, content_length)
    \/ \E client_id \in Clients : check_rate_limit(client_id)

SpecGates == Init /\ [][NextGates]_vars

(***************************************************************************)
(* LLMManager.generate_response, as run by callers on threads of their     *)
(* own: the selection of the backend, the rate-limit check, the awaited    *)
(* backend call with the recording of the request, and the return.         *)
(***************************************************************************)
rate_limits == [gemini |-> GeminiPerMinute, claude |-> ClaudePerMinute]

services_but_manager == <<cache, asked>>

generate_response_enter(c, user_plan) ==
    /\ call[c].at = "idle"
    /\ call' = [call EXCEPT ![c] = [at |-> "select", user_plan |-> user_plan]]
    /\ UNCHANGED <<limiters, environ, now, users_db, pc, frames, plan_changes, accounts,
                   served, window_at, request_history, selected,
                   services_but_manager>>

\* llm = self.get_llm_for_user(user_plan)
generate_response_select(c) ==
    /\ call[c].at = "select"
    /\ call' = [call EXCEPT ![c] =
                  [at |-> "limit", user_plan |-> call[c].user_plan,
                   llm |-> get_llm_for_user(call[c].user_plan)]]
    /\ selected' = [selected EXCEPT ![call[c].user_plan] =
                      @ \cup {get_llm_for_user(call[c].user_plan)}]
    /\ UNCHANGED <<limiters, environ, now, users_db, pc, frames, plan_changes, accounts,
                   served, window_at, request_history, services_but_manager>>

\* [timestamp for timestamp in history if timestamp > one_minute_ago]
within_minute(history) ==
    SelectSeq(history, LAMBDA timestamp : timestamp > unix_time - LlmWindow)

rate_limit_exceeded(user_plan) ==
    [success |-> FALSE,
     error |-> "Rate limit exceeded. Please try again later.",
     retry_after |-> RetryAfter]

_check_rate_limit(c) ==
    LET llm == call[c].llm
        kept == within_minute(request_history[llm])
    IN  /\ call[c].at = "limit"
        /\ request_history' = [request_history EXCEPT ![llm] = kept]
        /\ call' = [call EXCEPT ![c] =
              IF Len(kept) < rate_limits[llm]
              THEN [call[c] EXCEPT !.at = "await"]
              ELSE [at |-> "return", user_plan |-> call[c].user_plan,
                    llm |-> llm,
                    result |-> rate_limit_exceeded(call[c].user_plan)]]
        /\ UNCHANGED <<limiters, environ, now, users_db, pc, frames,
                       plan_changes, accounts, served, window_at, selected,
                       services_but_manager>>

\* a faulty dispatch: every call goes to Gemini
dispatch_gemini(llm) == "_generate_gemini_response"

\* `if llm == 'claude': ... _generate_claude_response ... else: ... _generate_gemini_response`
dispatch(llm) ==
    IF llm = "claude" THEN "_generate_claude_response"
                      ELSE "_generate_gemini_response"

generated(llm, user_plan, ok) ==
    IF ok THEN [success |-> TRUE, llm_used |-> llm, plan |-> user_plan]
          ELSE [success |-> FALSE, llm_used |-> llm]

\* the awaited backend call returns or raises; _record_request on return
generate_response_await(c, ok) ==
    LET llm == call[c].llm
    IN  /\ call[c].at = "await"
        /\ request_history' =
              IF ok THEN [request_history EXCEPT ![llm] = Append(@, unix_time)]
                    ELSE request_history
        /\ call' = [call EXCEPT ![c] =
              [at |-> "return", user_plan |-> call[c].user_plan, llm |-> llm,
               awaited |-> dispatch(llm),
               result |-> generated(llm, call[c].user_plan, ok)]]
        /\ UNCHANGED <<limiters, environ, now, users_db, pc, frames,
                       plan_changes, accounts, served, window_at, selected,
                       services_but_manager>>

generate_response_return(c) ==
    /\ call[c].at = "return"
    /\ call' = [call EXCEPT ![c] = Idle]
    /\ UNCHANGED <<limiters, environ, now, users_db, pc, frames, plan_changes, accounts,
                   served, window_at, request_history, selected,
                   services_but_manager>>

NextBackend ==
    \/ Advance
    \/ \E c \in Callers, user_plan \in UserPlans :
          generate_response_enter(c, user_plan)
    \/ \E c \in Callers : generate_response_select(c)
    \/ \E c \in Callers : _check_rate_limit(c)
    \/ \E c \in Callers, ok \in BOOLEAN : generate_response_await(c, ok)
    \/ \E c \in Callers : generate_response_return(c)

SpecBackend == Init /\ [][NextBackend]_vars

(***************************************************************************)
(* FastChatbot.process_query_fast, a coroutine on the event loop: what it  *)
(* executes up to `await asyncio.gather(...)` is one step, what it         *)
(* executes after the await is another.  A request text is the sequence of *)
(* its characters.  Of the response payload the model keeps answer,        *)
(* timestamp and from_cache.  On a hit the coroutine returns the stored    *)
(* dict itself, so the frame of a returning call records only from_cache;  *)
(* on a miss the dict it returns is kept beside its stored copy as         *)
(* `origin`, with the user_id of the request as `owner`; `stale` records   *)
(* that the lookup found an entry and judged it expired.                   *)
(***************************************************************************)
\* query.text.strip(): two spellings of one question, and another question
Queries == {<<"t", "a", "x">>, <<"T", "a", "x">>, <<"f", "e", "e">>}

\* str.lower
lower_char(ch) == IF ch = "T" THEN "t" ELSE ch

lower(text) == [i \in 1..Len(text) |-> lower_char(text[i])]

\* str.strip
RECURSIVE strip(_)
strip(text) ==
    IF text = <<>> THEN text
    ELSE IF Head(text) = " " THEN strip(Tail(text))
    ELSE IF text[Len(text)] = " " THEN strip(SubSeq(text, 1, Len(text) - 1))
    ELSE text

ord(ch) == IF ch = "t" THEN 116 ELSE IF ch = "a" THEN 97
           ELSE IF ch = "x" THEN 120 ELSE IF ch = "f" THEN 102
           ELSE IF ch = "e" THEN 101 ELSE IF ch = "T" THEN 84 ELSE 32

HashModulus == 1009

\* hash(str): a number determined by the characters
RECURSIVE hash(_)
hash(text) ==
    IF text = <<>> THEN 0
    ELSE (hash(SubSeq(text, 1, Len(text) - 1)) * 31 + ord(text[Len(text)]))
           % HashModulus

\* a faulty key: the fingerprint of the query alone
_get_cache_key_shared(query, user_id) == <<"", hash(strip(lower(query)))>>

\* f"{user_id}:{hash(query.lower().strip())}"
_get_cache_key(query, user_id) == <<user_id, hash(strip(lower(query)))>>

\* a faulty test: an entry exactly cache_ttl old still counts as fresh
_is_cache_valid_late(timestamp) == unix_time - timestamp <= cache_ttl

_is_cache_valid(timestamp) == unix_time - timestamp < cache_ttl

\* datetime.now().isoformat() and time.time(): one clock, two renderings
isoformat(t) == [kind |-> "isoformat", at |-> t]
epoch(t) == [kind |-> "epoch", at |-> t]

\* position of cache_key in the dict, 0 when it is not in it
index_of(entries, cache_key) ==
    IF \E i \in 1..Len(entries) : entries[i].key = cache_key
    THEN CHOOSE i \in 1..Len(entries) : entries[i].key = cache_key
    ELSE 0

\* a faulty choice: the key inserted first, whatever its timestamp
first_key(entries) == 1

\* min(self.cache.keys(), key=lambda k: self.cache[k]['timestamp']):
\* the first key, in insertion order, among those of least timestamp
oldest_key(entries) ==
    CHOOSE i \in 1..Len(entries) :
        \A j \in 1..Len(entries) :
            \/ entries[i].data.timestamp.at < entries[j].data.timestamp.at
            \/ /\ entries[i].data.timestamp.at = entries[j].data.timestamp.at
               /\ i <= j

\* del self.cache[key]
del(entries, i) ==
    [j \in 1..(Len(entries) - 1) |-> IF j < i THEN entries[j] ELSE entries[j + 1]]

\* a faulty store: adds an entry whether or not the key is there
appended(entries, value) == Append(entries, value)

\* self.cache[cache_key] = value: an existing key keeps its place
setitem(entries, value) ==
    IF index_of(entries, value.key) = 0
    THEN Append(entries, value)
    ELSE [entries EXCEPT ![index_of(entries, value.key)] = value]

\* a faulty bound: never evicts
no_limit(size) == FALSE

\* `if len(self.cache) > 100`
over_limit(size) == size > cache_limit

limited(entries) ==
    IF over_limit(Len(entries)) THEN del(entries, oldest_key(entries))
                                ELSE entries

\* a faulty hit: hands out the stored dict as it was stored
returned_as_stored(data) == data

\* cached_data['from_cache'] = True
\* a faulty hit: reading the entry restarts its TTL
marked_afresh(data) ==
    [data EXCEPT !.from_cache = TRUE, !.timestamp = epoch(unix_time)]

marked(data) == [data EXCEPT !.from_cache = TRUE]

services_but_chatbot == <<request_history, call, selected>>

\* lines 55-73: the lookup, and on a miss the start of the awaited work
process_query_fast(r, query, user_id) ==
    LET cache_key == _get_cache_key(query, user_id)
        i == index_of(cache, cache_key)
        hit == i # 0 /\ _is_cache_valid(cache[i].data.timestamp.at)
    IN  /\ asked[r].at = "idle"
        /\ cache' = IF hit
                    THEN [cache EXCEPT ![i].data = marked(cache[i].data)]
                    ELSE cache
        /\ asked' = [asked EXCEPT ![r] =
              IF hit
              THEN [at |-> "return", user_id |-> user_id,
                    cache_key |-> cache_key, from_cache |-> TRUE]
              ELSE [at |-> "await", user_id |-> user_id,
                    cache_key |-> cache_key, stale |-> i # 0]]
        /\ UNCHANGED <<limiters, environ, now, users_db, pc, frames,
                       plan_changes, accounts, served, window_at, services_but_chatbot>>

\* lines 74-102: the answer arrived; store it, bound the dict, return
process_query_fast_store(r, ai_response) ==
    LET result == [answer |-> ai_response, timestamp |-> isoformat(unix_time),
                   from_cache |-> FALSE]
        value == [key |-> asked[r].cache_key,
                  data |-> [result EXCEPT !.timestamp = epoch(unix_time)],
                  origin |-> result,
                  owner |-> asked[r].user_id]
    IN  /\ asked[r].at = "await"
        /\ cache' = limited(setitem(cache, value))
        /\ asked' = [asked EXCEPT ![r] =
              [at |-> "return", user_id |-> asked[r].user_id,
               cache_key |-> asked[r].cache_key, from_cache |-> FALSE]]
        /\ UNCHANGED <<limiters, environ, now, users_db, pc, frames,
                       plan_changes, accounts, served, window_at, services_but_chatbot>>

process_query_fast_return(r) ==
    /\ asked[r].at = "return"
    /\ asked' = [asked EXCEPT ![r] = Idle]
    /\ UNCHANGED <<limiters, environ, now, users_db, pc, frames, plan_changes, accounts,
                   served, window_at, services_but_chatbot, cache>>

\* POST /api/cache/clear
clear_cache ==
    /\ cache # <<>>
    /\ cache' = <<>>
    /\ UNCHANGED <<limiters, environ, now, users_db, pc, frames, plan_changes, accounts,
                   served, window_at, services_but_chatbot, asked>>

NextChat ==
    \/ \E t \in Moments : AdvanceTo(t)
    \/ \E r \in Askers, query \in Queries, user_id \in UserIds :
          process_query_fast(r, query, user_id)
    \/ \E r \in Askers, ai_response \in Answers :
          process_query_fast_store(r, ai_response)
    \/ \E r \in Askers : process_query_fast_return(r)
    \/ clear_cache

SpecChat == Init /\ [][NextChat]_vars

(***************************************************************************)
(* The three places that keep state per identity, side by side: the usage  *)
(* record of a user (AuthSystem), the request list of an address           *)
(* (security.RateLimiter) and the cached answers of a user_id              *)
(* (FastChatbot), each with two identities and one request at a time.      *)
(***************************************************************************)
Peers == {"10.0.0.1", "10.0.0.2"}  \* request.client.host of two clients
Serving == {"h1"}                  \* one handler of /api/chat/ask at a time
Asking == {"q1"}                   \* one request of /ask-enhanced at a time
Question == {<<"t", "a", "x">>}    \* the text both user_ids send
Midnights == {0, 24}               \* the clock read on two calendar days

NextTenants ==
    \/ \E t \in Midnights : TickTo(t)
    \/ \E email \in Emails : register_user(email)
    \/ \E p \in Serving, email \in Emails : ask_question_consecutive(p, email)
    \/ \E p \in Serving : Step(p)
    \/ \E ip \in Peers : is_allowed(ip)
    \/ \E r \in Asking, query \in Question, user_id \in UserIds :
          process_query_fast(r, query, user_id)
    \/ \E r \in Asking, ai_response \in Answers :
          process_query_fast_store(r, ai_response)
    \/ \E r \in Asking : process_query_fast_return(r)

SpecTenants == Init /\ [][NextTenants]_vars

\* security.RateLimiter and SecurityMiddleware alone, with two addresses
NextWindow ==
    \/ Advance
    \/ \E ip \in Peers : is_allowed(ip)
    \/ \E ip \in Peers, content_length \in ContentLengths :
          process_request(ip, content_length)

SpecWindow == Init /\ [][NextWindow]_vars

\* security_middleware.RateLimiter alone, with two clients
NextBuckets ==
    \/ Advance
    \/ \E client_id \in Peers : check_rate_limit(client_id)

SpecBuckets == Init /\ [][NextBuckets]_vars

\* one client that keeps asking while the clock passes half the TTL and the
\* TTL
Readings == {0, 150, 300}

NextReads ==
    \/ \E t \in Readings : AdvanceTo(t)
    \/ \E r \in Asking, query \in Queries, user_id \in UserIds :
          process_query_fast(r, query, user_id)
    \/ \E r \in Asking, ai_response \in Answers :
          process_query_fast_store(r, ai_response)
    \/ \E r \in Asking : process_query_fast_return(r)

SpecReads == Init /\ [][NextReads]_vars

(***************************************************************************)
(* AuthSystem: tokens, login, logout, and the require_auth decorator.      *)
(* Each is a synchronous call that runs to its return.                     *)
(***************************************************************************)
\* jwt.encode of the payload, issued at `iat`
token_of(user_id, email, plan, iat) ==
    [jwt |-> [user_id |-> user_id, email |-> email, plan |-> plan,
              iat |-> iat, exp |-> iat + jwt_expiration_hours]]

\* AuthSystem.generate_token
generate_token(user_id, email, plan) == token_of(user_id, email, plan, now)

\* a string that is no token signed with jwt_secret
Forged == [garbage |-> TRUE]

\* AuthSystem.verify_token: the payload, or None when jwt.decode raises
\* InvalidTokenError or ExpiredSignatureError
verify_token(token) ==
    IF "jwt" \notin DOMAIN token THEN None
    ELSE IF token.jwt.exp <= now THEN None
    ELSE token.jwt

\* AuthSystem.get_user_by_token on an instance whose users_db is db:
\* a copy of the user without the password
get_user_by_token(db, token) ==
    LET payload == verify_token(token)
    IN  IF payload = None THEN None
        ELSE IF payload.email \notin DOMAIN db THEN None
        ELSE [field \in DOMAIN db[payload.email] \ {"password"} |->
                 db[payload.email][field]]

\* register_user for an email that is registered: `if email in self.users_db`
\* returns the error and writes nothing
user_exists == [op |-> "register_user", success |-> FALSE,
                error |-> "User already exists"]

register_user_exists(email, password) ==
    /\ email \in DOMAIN users_db
    /\ auth_result' = user_exists
    /\ UNCHANGED <<services, limiters, environ, now, users_db, pc, frames,
                   plan_changes, served, window_at, sessions>>

invalid_credentials == [op |-> "login", success |-> FALSE,
                        error |-> "Invalid credentials"]

logged_in(token, session_id) ==
    [op |-> "login", success |-> TRUE, token |-> token,
     session_id |-> session_id]

\* session_id = f"session_{len(self.sessions) + 1}"
new_session_id(entries) == Len(entries) + 1

\* AuthSystem.login
login(email, password) ==
    /\ Len(sessions) < MaxSessions
    /\ IF email \notin DOMAIN users_db
       THEN /\ auth_result' = invalid_credentials
            /\ sessions' = sessions
       ELSE IF ~verify_password(password, users_db[email].password)
       THEN /\ auth_result' = invalid_credentials
            /\ sessions' = sessions
       ELSE LET user == users_db[email]
                token == generate_token(user.user_id, email, user.plan)
                session_id == new_session_id(sessions)
            IN  /\ sessions' = setitem(sessions,
                                  [key |-> session_id,
                                   user_id |-> user.user_id,
                                   email |-> email,
                                   token |-> token,
                                   created_at |-> now])
                /\ auth_result' = logged_in(token, session_id)
    /\ UNCHANGED <<services, limiters, environ, now, users_db, pc, frames,
                   plan_changes, served, window_at>>

\* for session_id, session in list(self.sessions.items()):
\*     if session['token'] == token: the first such session, 0 if none
first_session(entries, token) ==
    IF \E i \in 1..Len(entries) : entries[i].token = token
    THEN CHOOSE i \in 1..Len(entries) :
            /\ entries[i].token = token
            /\ \A j \in 1..(i - 1) : entries[j].token # token
    ELSE 0

invalid_token == [op |-> "logout", success |-> FALSE, error |-> "Invalid token"]
logged_out == [op |-> "logout", success |-> TRUE,
               message |-> "Logged out successfully"]

\* AuthSystem.logout
logout(token) ==
    /\ IF verify_token(token) = None
       THEN /\ auth_result' = invalid_token
            /\ sessions' = sessions
       ELSE /\ auth_result' = logged_out
            /\ sessions' = IF first_session(sessions, token) = 0
                           THEN sessions
                           ELSE del(sessions, first_session(sessions, token))
    /\ UNCHANGED <<services, limiters, environ, now, users_db, pc, frames,
                   plan_changes, served, window_at>>

\* the Authorization header of a request: absent, 'Bearer <token>', or the
\* bare token
NoHeader == [absent |-> TRUE]
Bearer(token) == [scheme |-> "Bearer ", token |-> token]
Bare(token) == [scheme |-> "", token |-> token]

\* auth_header.split(' ')[1] if auth_header.startswith('Bearer ') else auth_header
extract_token(auth_header) == auth_header.token

\* `auth_system = AuthSystem()` inside decorated_function: the users_db of
\* the instance the decorator asks
AuthSystem_users_db == [e \in {} |-> None]

unauthorized(error) == [op |-> "require_auth", status |-> 401, error |-> error]

\* request.current_user = user; return f(*args, **kwargs)
handled(user) == [op |-> "require_auth", status |-> 200, current_user |-> user]

require_auth_result(auth_header) ==
    IF auth_header = NoHeader
    THEN unauthorized("No authorization header")
    ELSE LET user == get_user_by_token(AuthSystem_users_db,
                                       extract_token(auth_header))
         IN  IF user = None THEN unauthorized("Invalid or expired token")
                            ELSE handled(user)

\* the tokens a client can hold: those of the sessions, that of the last
\* login, one of a user no instance knows, and a forged one
Held ==
    {sessions[i].token : i \in 1..Len(sessions)}
       \cup (IF auth_result # None /\ "token" \in DOMAIN auth_result
             THEN {auth_result.token} ELSE {})
       \cup {token_of(0, "nobody@x", "free", now), Forged}

Headers == {NoHeader} \cup {Bearer(token) : token \in Held}
                      \cup {Bare(token) : token \in Held}

\* the decorated_function of require_auth
require_auth(auth_header) ==
    /\ auth_result' = require_auth_result(auth_header)
    /\ UNCHANGED <<services, limiters, environ, now, users_db, pc, frames,
                   plan_changes, served, window_at, sessions>>

NextSessions ==
    \/ Tick
    \/ \E email \in Emails : register_user(email)
    \/ \E email \in Emails, password \in Attempts : login(email, password)
    \/ \E token \in Held : logout(token)
    \/ \E auth_header \in Headers : require_auth(auth_header)

SpecSessions == Init /\ [][NextSessions]_vars

\* registrations, repeated ones too, among plan changes and served requests
NextRegister ==
    \/ Tick
    \/ \E email \in Emails : register_user(email)
    \/ \E email \in Emails, password \in Attempts :
          register_user_exists(email, password)
    \/ \E email \in Emails, new_plan \in PaidPlans :
          update_user_plan(email, new_plan)
    \/ \E p \in Serving, email \in Emails : ask_question_consecutive(p, email)
    \/ \E p \in Serving : Step(p)

SpecRegister == Init /\ [][NextRegister]_vars

\* the plans a checkout.session.completed event can carry in its metadata:
\* sessions made by create_checkout carry a paid plan, any other session
\* whatever its creator wrote
WebhookPlans == PaidPlans \cup {"enterprise"}

NextPlans ==
    \/ Tick
    \/ \E email \in Solo : register_user(email)
    \/ \E email \in Emails, new_plan \in WebhookPlans :
          update_user_plan(email, new_plan)
    \/ \E p \in Handlers, email \in Emails : ask_question_consecutive(p, email)
    \/ \E p \in Handlers : Step(p)

SpecPlans == Init /\ [][NextPlans]_vars

(***************************************************************************)
(* Vocabulary of the properties.                                           *)
(***************************************************************************)
Registered == DOMAIN users_db
Counter(e) == users_db[e].daily_count
Quota(e) == limit_of(users_db[e].plan)
Admitted(p) == pc[p] \in {"llm", "increment_load", "increment_store"}
Quiet(e) == \A p \in Handlers : Active(p) => EmailOf(p) # e
\* handler p executes the statement at label l in this step
Takes(p, l) == pc[p] = l /\ pc'[p] # l

(***************************************************************************)
(* C1: the stored daily_count of a user never exceeds the quota of the     *)
(* user's plan.                                                            *)
(***************************************************************************)
C1_CountWithinQuota == \A e \in Registered : Counter(e) <= Quota(e)

(***************************************************************************)
(* C2: concurrent requests of one user lose no update (when no request is  *)
(* in flight the count is the number of requests served in the window) and *)
(* two requests are never both admitted on the last unit of quota.         *)
(***************************************************************************)
C2_SerializedCounter ==
    /\ \A e \in Registered : Quiet(e) => Counter(e) = served[e]
    /\ \A p, q \in Handlers :
          (p # q /\ Admitted(p) /\ Admitted(q) /\ EmailOf(p) = EmailOf(q)
             /\ today[p] = today[q])
          => ~(rate_check[p].remaining = 1 /\ rate_check[q].remaining = 1)

(***************************************************************************)
(* C3: when the calls of a user follow one another, the stored count       *)
(* equals the number N of successful calls of the window, a call is        *)
(* admitted only while N is below the quota and is denied when N has       *)
(* reached it.                                                             *)
(***************************************************************************)
C3_CountEqualsServed ==
    /\ \A e \in Registered : Quiet(e) => Counter(e) = served[e]
    /\ \A p \in Handlers :
          /\ Admitted(p) => /\ served[EmailOf(p)] < rate_check[p].limit
                            /\ rate_check[p].used = served[EmailOf(p)]
          /\ (pc[p] = "done" /\ response[p].status = 429)
                => /\ served[EmailOf(p)] >= response[p].limit
                   /\ response[p].used = served[EmailOf(p)]
                   /\ Counter(EmailOf(p)) = served[EmailOf(p)]
          /\ (pc[p] = "done" /\ response[p].status = 200)
                => Counter(EmailOf(p)) = served[EmailOf(p)]

\* the N = quota case: a call was denied after exactly quota successful calls
C3_Witness ==
    \E p \in Handlers :
        /\ pc[p] = "done"
        /\ response[p].status = 429
        /\ served[EmailOf(p)] = response[p].limit
        /\ Counter(EmailOf(p)) = Quota(EmailOf(p))
        /\ users_db[EmailOf(p)].plan = "pro"

(***************************************************************************)
(* C4: with the default limits, the k-th successful call of a window       *)
(* reports remaining = quota - k, the quota of the Free plan is 10, and a  *)
(* denied call reports the quota and used = count.                         *)
(***************************************************************************)
C4_RemainingCountsDown ==
    \A p \in Handlers :
        pc[p] = "done" =>
          /\ response[p].status = 200 =>
                /\ response[p].remaining = response[p].limit - served[EmailOf(p)]
                /\ response[p].remaining = response[p].limit - Counter(EmailOf(p))
                /\ response[p].used = served[EmailOf(p)]
                /\ response[p].remaining >= 0
                /\ rate_check[p].plan = "free" => response[p].limit = DefaultFreeLimit
          /\ response[p].status = 429 =>
                /\ response[p].used = Counter(EmailOf(p))
                /\ response[p].used = served[EmailOf(p)]
                /\ response[p].plan = "free" => response[p].limit = DefaultFreeLimit

\* the 11th call of the scenario: Denied{quota = 10, used = 10}
C4_Witness ==
    \E p \in Handlers :
        /\ pc[p] = "done"
        /\ response[p] = [status |-> 429, error |-> "Daily limit reached",
                          limit |-> 10, used |-> 10, plan |-> "free"]
        /\ served[EmailOf(p)] = 10

(***************************************************************************)
(* C5 as stated: an Allowed decision increments the count by one as part   *)
(* of the decision.                                                        *)
(***************************************************************************)
C5_AllowedConsumes ==
    [][\A p \in Handlers :
          (pc[p] = "decide" /\ pc'[p] = "llm")
          => users_db'[EmailOf(p)].daily_count = Counter(EmailOf(p)) + 1]_vars

(***************************************************************************)
(* C5 as amended: the decision of check_rate_limit leaves users_db         *)
(* unchanged; ask_question increments only after the awaited backend call  *)
(* returned success, and a request whose backend call failed is answered   *)
(* 500 without a change to users_db.                                       *)
(***************************************************************************)
C5_IncrementAfterBackend ==
    [][\A p \in Handlers :
          /\ Takes(p, "decide") => users_db' = users_db
          /\ Takes(p, "llm") =>
                /\ users_db' = users_db
                /\ llm_response'[p].success => pc'[p] = "increment_load"
                /\ ~llm_response'[p].success =>
                      pc'[p] = "done" /\ response'[p].status = 500
          /\ (users_db' # users_db /\ pc'[p] # pc[p] /\ Admitted(p))
                => /\ pc[p] = "increment_store"
                   /\ llm_response[p].success
                   /\ rate_check[p].success]_vars

\* a request was admitted, its backend call failed, and nothing was consumed
C5_Witness ==
    \E p \in Handlers :
        /\ pc[p] = "done"
        /\ response[p].status = 500
        /\ rate_check[p].success
        /\ Counter(EmailOf(p)) = rate_check[p].used

(***************************************************************************)
(* C6 as stated: a call resets the counter exactly when at least one       *)
(* window length (24 h) has passed since the window was started.           *)
(***************************************************************************)
C6_ResetAfterFullWindow ==
    [][\A p \in Handlers :
          Takes(p, "check") =>
             (pc'[p] = "reset_count"
                <=> now - window_at[EmailOf(p)] >= HoursPerDay)]_vars

(***************************************************************************)
(* C6 as amended: a call resets the counter (daily_count := 0, last_reset  *)
(* := the call's UTC date) exactly when the UTC calendar date of the call  *)
(* differs from the stored last_reset; this is always so once 24 h have    *)
(* passed since the window was started, and can be so earlier.             *)
(***************************************************************************)
C6_ResetOnDateChange ==
    [][\A p \in Handlers :
          /\ Takes(p, "check") =>
                /\ pc'[p] = "reset_count"
                     <=> users_db[EmailOf(p)].last_reset # Date(now)
                /\ now - window_at[EmailOf(p)] >= HoursPerDay
                     => pc'[p] = "reset_count"
                /\ pc'[p] \in {"reset_count", "decide"}
                /\ users_db' = users_db
          /\ Takes(p, "reset_count") =>
                /\ users_db'[EmailOf(p)].daily_count = 0
                /\ pc'[p] = "reset_date"
          /\ Takes(p, "reset_date") =>
                /\ users_db'[EmailOf(p)].last_reset = today[p]
                /\ users_db'[EmailOf(p)].daily_count = Counter(EmailOf(p))]_vars

\* a reset less than 24 h after the window was started
C6_Witness ==
    \E p \in Handlers :
        /\ pc[p] = "reset_date"
        /\ Counter(EmailOf(p)) = 0
        /\ now - window_at[EmailOf(p)] < HoursPerDay

(***************************************************************************)
(* C7: a call that comes 24 h or more after the user's window was started, *)
(* the user's calls following one another, is never denied: it is admitted *)
(* with used = 0 and remaining = quota, and its 200 response reports       *)
(* remaining = quota - 1, whatever the count was before.                   *)
(***************************************************************************)
C7_AllowedAfterWindow ==
    \A p \in Handlers :
        (Active(p) /\ pc[p] # "check" /\ found[p].late) =>
          /\ pc[p] = "decide" => Counter(EmailOf(p)) = 0
          /\ Admitted(p) =>
                /\ rate_check[p].success
                /\ rate_check[p].used = 0
                /\ rate_check[p].remaining = rate_check[p].limit
                /\ rate_check[p].limit = limit_of(rate_check[p].plan)
          /\ pc[p] = "done" =>
                /\ response[p].status \in {200, 500}
                /\ response[p].status = 200 =>
                      /\ response[p].remaining = response[p].limit - 1
                      /\ response[p].limit = limit_of(rate_check[p].plan)

\* such a call found the count at the quota and was served
C7_Witness ==
    \E p \in Handlers :
        /\ pc[p] = "done"
        /\ found[p].late
        /\ found[p].full
        /\ response[p].status = 200
        /\ response[p].remaining = Quota(EmailOf(p)) - 1

(***************************************************************************)
(* C8: the count is reset once per crossing of a day boundary: no call     *)
(* zeroes the count of a window that another call has already moved to the *)
(* same day, and no increment admitted in an earlier window lands in the   *)
(* window that followed the reset.                                         *)
(***************************************************************************)
C8_ResetOncePerCrossing ==
    [][\A p \in Handlers :
          /\ Takes(p, "reset_count")
                => users_db[EmailOf(p)].last_reset # today[p]
          /\ Takes(p, "increment_store")
                => users_db[EmailOf(p)].last_reset = today[p]]_vars

(***************************************************************************)
(* C9: a Denied decision leaves the counter unchanged, and within a window *)
(* (any step but the reset of check_rate_limit) the count of a user stays  *)
(* or increments by one, and never decreases.                              *)
(***************************************************************************)
C9_CountStaysOrIncrements ==
    [][/\ \A p \in Handlers :
             (pc[p] = "decide" /\ pc'[p] = "done") => users_db' = users_db
       /\ \A e \in Registered :
             (\A p \in Handlers : ~Takes(p, "reset_count"))
             => users_db'[e].daily_count \in {Counter(e), Counter(e) + 1}]_vars

\* the plan gate of AuthSystem found the quota used up and said so in the
\* dict it returned, which ask_question turned into the 429 body
DeniedByValue(p) ==
    /\ rate_check[p].success = FALSE
    /\ rate_check[p].limit = Quota(EmailOf(p))
    /\ rate_check[p].used = Counter(EmailOf(p))
    /\ rate_check[p].used >= rate_check[p].limit
    /\ response[p] = denied_response(rate_check[p])

(***************************************************************************)
(* C10 as stated: in every rate-limit gate, a call that finds the quota    *)
(* used up ends by returning a value and never by raising.                 *)
(***************************************************************************)
C10_ExhaustionReturned ==
    /\ \A p \in Handlers :
          (pc[p] = "done" /\ response[p].status = TooManyRequests)
          => DeniedByValue(p)
    /\ (gate_result # None /\ gate_result.exhausted) => ~gate_result.raised

(***************************************************************************)
(* C10 as amended: AuthSystem.check_rate_limit reports exhaustion in the   *)
(* dict it returns (success False, limit, used) and                        *)
(* security.RateLimiter.is_allowed returns False, but                      *)
(* SecurityMiddleware.process_request and                                  *)
(* security_middleware.RateLimiter.check_rate_limit raise                  *)
(* HTTPException(429) when the limit is reached, and raise 429 only then.  *)
(***************************************************************************)
C10_ExhaustionByGate ==
    /\ \A p \in Handlers :
          (pc[p] = "done" /\ response[p].status = TooManyRequests)
          => DeniedByValue(p)
    /\ gate_result # None =>
          /\ gate_result.gate = "is_allowed" =>
                /\ ~gate_result.raised
                /\ gate_result.value = ~gate_result.exhausted
          /\ gate_result.gate \in {"process_request", "check_rate_limit"} =>
                /\ gate_result.exhausted
                     <=> (gate_result.raised
                            /\ gate_result.status_code = TooManyRequests)
                /\ gate_result.raised
                     => gate_result.status_code
                          \in {TooManyRequests, PayloadTooLarge}

\* the hourly limit of security_middleware.RateLimiter was reached while the
\* minute bucket still had room, and the call raised
C10_Witness ==
    /\ gate_result = raise_HTTPException("check_rate_limit", TooManyRequests,
                                         TRUE)
    /\ \E c \in DOMAIN hour_buckets :
          /\ Len(hour_buckets[c]) >= requests_per_hour
          /\ Len(_clean_old_requests(minute_buckets[c], MinuteWindow))
               < requests_per_minute

Tiers == {"free", "pro", "business"}
Decided(p) == pc[p] \in {"llm", "increment_load", "increment_store", "done"}

(***************************************************************************)
(* C11 as stated: a call for a user whose plan is none of free, pro,       *)
(* business fails and admits nothing.                                      *)
(***************************************************************************)
C11_UnknownPlanFails ==
    \A p \in Handlers :
        (Decided(p) /\ rate_check[p].plan \notin Tiers)
        => rate_check[p].success = FALSE

(***************************************************************************)
(* C11 as amended: a call for a user whose plan is none of free, pro,      *)
(* business raises nothing; check_rate_limit applies the fallback limit of *)
(* 10 requests a day, admits the request while daily_count < 10, denies it *)
(* with "Daily limit reached" from 10 on, and a served request consumes    *)
(* one unit as for any other plan.                                         *)
(***************************************************************************)
C11_UnknownPlanFallback ==
    \A p \in Handlers :
        (Decided(p) /\ rate_check[p].plan \notin Tiers) =>
          /\ rate_check[p].limit = FallbackLimit
          /\ rate_check[p].success <=> rate_check[p].used < FallbackLimit
          /\ ~rate_check[p].success =>
                /\ rate_check[p].error = "Daily limit reached"
                /\ response[p].status = 429
                /\ Counter(EmailOf(p)) = rate_check[p].used
          /\ (pc[p] = "done" /\ response[p].status = 200) =>
                /\ Counter(EmailOf(p)) = rate_check[p].used + 1
                /\ response[p].remaining = FallbackLimit - Counter(EmailOf(p))

\* a request of a user on an unrecognized plan was served
C11_Witness ==
    \E p \in Handlers :
        /\ pc[p] = "done"
        /\ response[p].status = 200
        /\ rate_check[p].plan = "enterprise"
        /\ users_db[EmailOf(p)].plan = "enterprise"
        /\ Counter(EmailOf(p)) > EnvBusinessLimit

Backends == {"gemini", "claude"}
Answered(p) == pc[p] \in {"increment_load", "increment_store", "done"}
                 /\ llm_response[p] # None

(***************************************************************************)
(* C12 as stated: the backend selection fails for every plan that is not   *)
(* a recognized tier and never returns a backend for such a plan.          *)
(***************************************************************************)
C12_UnknownPlanNoBackend ==
    \A p \in Handlers :
        (Answered(p) /\ llm_response[p].llm_used \in Backends)
        => current_user[p].plan \in Tiers

(***************************************************************************)
(* C12 as amended: get_llm_for_user never fails; it returns 'claude' for   *)
(* the plan 'business' and 'gemini' for every other plan value, recognized *)
(* tier or not.                                                            *)
(***************************************************************************)
C12_BackendForEveryPlan ==
    \A p \in Handlers :
        Answered(p) =>
          /\ llm_response[p].llm_used \in Backends
          /\ llm_response[p].llm_used = "claude"
                <=> current_user[p].plan = "business"
          /\ current_user[p].plan \notin Tiers
                => llm_response[p].llm_used = "gemini"

\* the backend call made for a user on an unrecognized plan went to gemini
C12_Witness ==
    \E p \in Handlers :
        /\ Answered(p)
        /\ current_user[p].plan = "enterprise"
        /\ llm_response[p] = [success |-> TRUE, llm_used |-> "gemini"]

\* caller c executes `llm = self.get_llm_for_user(user_plan)` in this step
Selects(c) == call[c].at = "select" /\ call'[c].at = "limit"

(***************************************************************************)
(* C13: the backend selection is a stable, pure lookup: over a whole run,  *)
(* whatever calls, rate-limit checks and recordings are interleaved, one   *)
(* plan is only ever given one backend, and the step that selects changes  *)
(* nothing but the caller's own local: not the request history, not the    *)
(* usage counters, not the IP limiters, not the cache.                     *)
(***************************************************************************)
C13_SelectionStablePure ==
    /\ [](\A plan \in UserPlans : Cardinality(selected[plan]) <= 1)
    /\ [](\A c, d \in Callers :
            (call[c].at \in {"limit", "await", "return"}
               /\ call[d].at \in {"limit", "await", "return"}
               /\ call[c].user_plan = call[d].user_plan)
            => call[c].llm = call[d].llm)
    /\ [][\A c \in Callers :
            Selects(c) =>
              /\ request_history' = request_history
              /\ users_db' = users_db
              /\ cache' = cache
              /\ <<requests, minute_buckets, hour_buckets>>'
                   = <<requests, minute_buckets, hour_buckets>>
              /\ \A d \in Callers \ {c} : call'[d] = call[d]
              /\ call'[c].user_plan = call[c].user_plan]_vars

\* the plan 'business' was given its backend again while that backend's
\* history was at its limit and the other caller was between check and record
C13_Witness ==
    \E c, d \in Callers :
        /\ c # d
        /\ call[c].at = "limit"
        /\ call[c].user_plan = "business"
        /\ call[c].llm = "claude"
        /\ Len(within_minute(request_history["claude"])) >= ClaudePerMinute
        /\ unix_time > 0
        /\ call[d].at = "await"
        /\ selected["business"] = {"claude"}
        /\ selected["enterprise"] = {"gemini"}


(***************************************************************************)
(* Vocabulary of the cache claims                                          *)
(***************************************************************************)
\* the step in which call r looks its key up
Looks(r) == asked[r].at = "idle" /\ asked'[r].at # "idle"

\* the step in which call r stores its answer
Stores(r) == asked[r].at = "await" /\ asked'[r].at = "return"

Keys(entries) == {entries[i].key : i \in 1..Len(entries)}

Entry(entries, cache_key) == entries[index_of(entries, cache_key)]

Age(entry) == unix_time - entry.data.timestamp.at

\* C14: a lookup is answered from the cache only by an entry younger than
\* cache_ttl; a lookup that finds an entry of age cache_ttl or more is not
\* answered from it, leaves the cache alone and goes on to recompute.
C14_ServedOnlyFresh ==
    [][\A r \in Askers :
          Looks(r) =>
             LET cache_key == asked'[r].cache_key
             IN  /\ asked'[r].at = "return" =>
                      /\ cache_key \in Keys(cache)
                      /\ Age(Entry(cache, cache_key)) < cache_ttl
                      /\ asked'[r].from_cache
                 /\ (cache_key \in Keys(cache)
                        /\ Age(Entry(cache, cache_key)) >= cache_ttl) =>
                      /\ asked'[r].at = "await"
                      /\ cache' = cache]_vars

\* C14 witness: a lookup found an entry exactly cache_ttl old and missed.
C14_Witness ==
    \E r \in Askers :
       /\ asked[r].at = "await"
       /\ asked[r].stale
       /\ asked[r].cache_key \in Keys(cache)
       /\ Age(Entry(cache, asked[r].cache_key)) = cache_ttl

Others(entries, cache_key) ==
    SelectSeq(entries, LAMBDA entry : entry.key # cache_key)

\* C16: when storing a new key evicts, the evicted entry is one of the
\* entries that were there, none of them has a smaller timestamp and none
\* of equal timestamp was inserted before it; every other entry stays as it
\* was, and the entry just stored is the last of the dict.
C16_EvictsOldest ==
    [][\A r \in Askers :
          (Stores(r) /\ asked[r].cache_key \notin Keys(cache)
                     /\ Len(cache) = cache_limit) =>
             \E i \in 1..Len(cache) :
                /\ \A j \in 1..Len(cache) :
                      \/ cache[i].data.timestamp.at < cache[j].data.timestamp.at
                      \/ /\ cache[i].data.timestamp.at = cache[j].data.timestamp.at
                         /\ i <= j
                /\ cache[i].key \notin Keys(cache')
                /\ Others(cache', asked[r].cache_key) = Others(cache, cache[i].key)
                /\ cache'[Len(cache')].key = asked[r].cache_key
                /\ cache'[Len(cache')].data.timestamp.at = unix_time]_vars

\* C16 witness: three keys were stored at one clock reading into a dict of
\* limit two; the first is gone, the second and the third are in the dict.
C16_Witness ==
    \E r, q \in Askers :
       /\ asked[r].at = "return" /\ ~asked[r].from_cache
       /\ asked[q].at = "return" /\ ~asked[q].from_cache
       /\ unix_time = 0
       /\ Len(cache) >= 2
       /\ cache[Len(cache)].key = asked[r].cache_key
       /\ asked[q].cache_key \notin Keys(cache)
       /\ \A i \in 1..Len(cache) : ~cache[i].data.from_cache

\* C18: storing under a key that is in the dict replaces that entry in
\* place with timestamp = now; the number of entries, the keys and every
\* other entry stay as they were, also when the dict is full.
C18_OverwriteInPlace ==
    [][\A r \in Askers :
          (Stores(r) /\ asked[r].cache_key \in Keys(cache)) =>
             LET i == index_of(cache, asked[r].cache_key)
             IN  /\ Len(cache') = Len(cache)
                 /\ \A j \in 1..Len(cache) : j # i => cache'[j] = cache[j]
                 /\ cache'[i].key = asked[r].cache_key
                 /\ cache'[i].data.timestamp = epoch(unix_time)
                 /\ ~cache'[i].data.from_cache]_vars

\* C18 witness: the dict is full and its first entry is newer than its
\* second: it was stored again under its key, by the call now returning.
C18_Witness ==
    \E r \in Askers :
       /\ asked[r].at = "return" /\ ~asked[r].from_cache
       /\ Len(cache) = cache_limit
       /\ cache[1].key = asked[r].cache_key
       /\ cache[1].data.timestamp.at = unix_time
       /\ cache[1].data.timestamp.at > cache[2].data.timestamp.at

\* the step in which call r is answered from the cache
Hits(r) == Looks(r) /\ asked'[r].at = "return"

\* C17 as stated: the dict a hit returns equals the response r that the
\* storing call handed.
C17_RoundTripIdentical ==
    [][\A r \in Askers :
          Hits(r) => Entry(cache', asked'[r].cache_key).data
                        = Entry(cache, asked'[r].cache_key).origin]_vars

\* C17: the dict a hit returns carries the answer of the response r that
\* the storing call returned; its from_cache is TRUE where r's was FALSE,
\* and its timestamp is the epoch reading of the store where r's was the
\* ISO rendering of that reading.
C17_RoundTripAnswer ==
    [][\A r \in Askers :
          Hits(r) =>
             LET origin == Entry(cache, asked'[r].cache_key).origin
                 handed == Entry(cache', asked'[r].cache_key).data
             IN  /\ origin.from_cache = FALSE
                 /\ origin.timestamp.kind = "isoformat"
                 /\ handed = [answer |-> origin.answer,
                                timestamp |-> epoch(origin.timestamp.at),
                                from_cache |-> TRUE]]_vars

\* C17 witness: a call is answered from an entry stored at this very clock
\* reading.
C17_Witness ==
    \E r \in Askers :
       /\ asked[r].at = "return"
       /\ asked[r].from_cache
       /\ asked[r].cache_key \in Keys(cache)
       /\ Age(Entry(cache, asked[r].cache_key)) = 0
       /\ Entry(cache, asked[r].cache_key).data.from_cache
       /\ Entry(cache, asked[r].cache_key).origin.answer \in Answers

\* C19 as stated: two calls in progress for one cache key never both miss:
\* no state has both of them past a failed lookup and awaiting the answer
\* they will both store.
C19_NoDoubleMiss ==
    \A r, q \in Askers :
       (r # q /\ asked[r].at = "await" /\ asked[q].at = "await") =>
          asked[r].cache_key # asked[q].cache_key

\* C20: a step of a handler working for one user leaves the record, the
\* served count and the window start of every other user unchanged, and the
\* decision of check_rate_limit is the one the user's own record gives; the
\* step is_allowed makes for one address leaves the request list of every
\* other address unchanged; and a lookup is answered from the cache only by
\* an entry that a request naming the same user_id stored.
C20_IdentitiesIsolated ==
    [][/\ \A p \in Handlers :
             (Active(p) /\ pc'[p] # pc[p]) =>
                /\ DOMAIN users_db' = DOMAIN users_db
                /\ \A e \in DOMAIN users_db \ {EmailOf(p)} :
                      /\ users_db'[e] = users_db[e]
                      /\ served'[e] = served[e]
                      /\ window_at'[e] = window_at[e]
                /\ Takes(p, "decide") =>
                      rate_check'[p].success
                         = (users_db[EmailOf(p)].daily_count
                               < limit_of(users_db[EmailOf(p)].plan))
       /\ \A ip \in Peers :
             (requests' # requests /\ requests' = is_allowed_requests(ip)) =>
                \A other \in DOMAIN requests \ {ip} :
                   requests'[other] = requests[other]
       /\ \A r \in Askers :
             Hits(r) =>
                Entry(cache, asked'[r].cache_key).owner = asked'[r].user_id
      ]_vars

\* C20 witness: both users have consumed, both addresses have been counted,
\* and a user_id asks the question whose answer is cached for the other
\* user_id only: the lookup missed.
C20_Witness ==
    /\ \A e \in Emails : e \in DOMAIN users_db /\ users_db[e].daily_count > 0
    /\ \A ip \in Peers : ip \in DOMAIN requests /\ Len(requests[ip]) > 0
    /\ \E r \in Askers :
          /\ asked[r].at = "await"
          /\ Len(cache) = 1
          /\ cache[1].owner # asked[r].user_id
          /\ cache[1].key[2] = asked[r].cache_key[2]

\* the calendar days the clock can show
Days == {Date(t) : t \in Hours}

\* handler p is answering 429 because the daily limit was reached
Denied(p) == pc[p] = "done" /\ response[p].status = TooManyRequests

\* C21: while the clock can still reach a later calendar day, a call that
\* was denied on day d is eventually followed by a call of the same user
\* whose check_rate_limit ran on a later day and allowed it.
C21_DeniedThenAllowed ==
    \A p \in Handlers : \A d \in Days : \A e \in Emails :
       (/\ Denied(p)
        /\ EmailOf(p) = e
        /\ Date(now) = d
        /\ \E t \in Hours : Date(t) > d)
          ~> (\E q \in Handlers :
                /\ Admitted(q)
                /\ EmailOf(q) = e
                /\ today[q] > d
                /\ rate_check[q].success)

\* C21 witness: a call that found the count at the quota a day or more
\* after the window was started has been allowed.
C21_Witness ==
    \E q \in Handlers :
       /\ Admitted(q)
       /\ found[q].full
       /\ today[q] > 0
       /\ rate_check[q].success
       /\ rate_check[q].used = 0

\* caller c is back from the awaited backend call
Dispatched(c) == call[c].at = "return" /\ "awaited" \in DOMAIN call[c]

\* the backend the tiers are documented to get, and its method
BackendOf(plan) == IF plan = "business" THEN "claude" ELSE "gemini"
MethodOf(llm) ==
    IF llm = "claude" THEN "_generate_claude_response"
                      ELSE "_generate_gemini_response"

(***************************************************************************)
(* C22: 'business' selects Claude and 'free' and 'pro' select Gemini; a    *)
(* call of generate_response for one of these plans awaits exactly the     *)
(* method of that backend, reports that backend as llm_used, whether the   *)
(* backend answered or raised, and a successful call is recorded in that   *)
(* backend's request history and in no other.                              *)
(***************************************************************************)
C22_DispatchBySelection ==
    /\ [](\A c \in Callers :
            (call[c].at \in {"limit", "await", "return"}
               /\ call[c].user_plan \in Tiers)
            => call[c].llm = BackendOf(call[c].user_plan))
    /\ [](\A c \in Callers :
            (Dispatched(c) /\ call[c].user_plan \in Tiers)
            => /\ call[c].awaited = MethodOf(BackendOf(call[c].user_plan))
               /\ call[c].result.llm_used = BackendOf(call[c].user_plan))
    /\ [][\A c \in Callers :
            (call[c].at = "await" /\ Dispatched(c)'
               /\ call[c].user_plan \in Tiers)
            => \A llm \in Backends :
                  Len(request_history'[llm]) =
                     Len(request_history[llm]) +
                       (IF call'[c].result.success
                           /\ llm = BackendOf(call[c].user_plan)
                        THEN 1 ELSE 0)]_vars

\* a 'business' call answered by Claude and a 'pro' call answered by Gemini
\* have both returned from their backend, after a 'free' call went to Gemini
C22_Witness ==
    \E c, d \in Callers :
        /\ Dispatched(c)
        /\ call[c].user_plan = "business"
        /\ call[c].awaited = "_generate_claude_response"
        /\ call[c].result.success
        /\ call[c].result.llm_used = "claude"
        /\ Dispatched(d)
        /\ call[d].user_plan = "pro"
        /\ call[d].awaited = "_generate_gemini_response"
        /\ call[d].result.llm_used = "gemini"
        /\ selected["free"] = {"gemini"}


\* the recorded requests of ip that are younger than the window
Live(ip) ==
    SelectSeq(IF ip \in DOMAIN requests THEN requests[ip] ELSE <<>>,
              LAMBDA timestamp : unix_time - timestamp < rate_limit_window)

\* this step is a call of is_allowed, bare or from process_request, that
\* changed what is recorded or what was answered
Gated ==
    /\ gate_result' # None
    /\ gate_result'.gate \in {"is_allowed", "process_request"}
    /\ requests' # requests \/ gate_result' # gate_result

\* the answer of the limiter in the outcome of the call: the value of
\* is_allowed, and for process_request anything but the 429
Allowed(result) ==
    IF result.gate = "is_allowed" THEN result.value
    ELSE ~(result.raised /\ result.status_code = TooManyRequests)

(***************************************************************************)
(* C23: security.RateLimiter.is_allowed is a sliding-window limiter: in    *)
(* every reachable state every ip has at most rate_limit_requests recorded *)
(* timestamps younger than rate_limit_window; a call is allowed and        *)
(* appends its timestamp to the live ones iff fewer than                   *)
(* rate_limit_requests of them are live, a rejected call leaves only the   *)
(* live ones and appends nothing, and no call touches another ip's list.   *)
(***************************************************************************)
C23_SlidingWindow ==
    /\ [](\A ip \in Peers : Len(Live(ip)) <= rate_limit_requests)
    /\ [][Gated =>
            \E ip \in Peers :
               /\ \A other \in DOMAIN requests \ {ip} :
                     requests'[other] = requests[other]
               /\ DOMAIN requests' = DOMAIN requests \cup {ip}
               /\ Allowed(gate_result') <=> Len(Live(ip)) < rate_limit_requests
               /\ requests'[ip] =
                     IF Len(Live(ip)) < rate_limit_requests
                     THEN Append(Live(ip), unix_time)
                     ELSE Live(ip)]_vars

\* the window has slid: the requests of the first instant have left it, two
\* later ones fill it, the call at the last instant was rejected, and the
\* other address still has room
C23_Witness ==
    /\ gate_result # None
    /\ gate_result.gate = "is_allowed"
    /\ ~gate_result.value
    /\ \E ip, other \in Peers :
          /\ ip \in DOMAIN requests
          /\ Len(requests[ip]) = rate_limit_requests
          /\ Len(Live(ip)) = rate_limit_requests
          /\ \A i \in 1..Len(requests[ip]) : requests[ip][i] > 0
          /\ other \in DOMAIN requests
          /\ Len(Live(other)) < rate_limit_requests

\* the timestamps of a client's bucket that are younger than its window
LiveIn(buckets, client_id, time_window) ==
    SelectSeq(IF client_id \in DOMAIN buckets THEN buckets[client_id] ELSE <<>>,
              LAMBDA t : unix_time - t < time_window)

\* how often timestamp t is in a bucket
Times(bucket, t) == Cardinality({i \in 1..Len(bucket) : bucket[i] = t})

\* this step is a call of security_middleware.RateLimiter.check_rate_limit
\* that changed what is recorded or what was answered
Bucketed ==
    /\ gate_result' # None
    /\ gate_result'.gate = "check_rate_limit"
    /\ \/ gate_result' # gate_result
       \/ minute_buckets' # minute_buckets
       \/ hour_buckets' # hour_buckets

(***************************************************************************)
(* C24: in security_middleware.RateLimiter.check_rate_limit a request is   *)
(* admitted iff both the minute and the hour bucket of the client hold     *)
(* fewer live timestamps than their limits; the admitted request is        *)
(* appended to both buckets in the same step and a rejected one to         *)
(* neither; so in every reachable state every timestamp of a client's      *)
(* minute bucket is in its hour bucket as often, and the buckets hold at   *)
(* most requests_per_minute and requests_per_hour live timestamps.         *)
(***************************************************************************)
C24_BucketsInStep ==
    /\ [](\A c \in DOMAIN minute_buckets :
            /\ c \in DOMAIN hour_buckets
            /\ \A t \in Instants :
                  Times(minute_buckets[c], t) <= Times(hour_buckets[c], t)
            /\ Len(LiveIn(minute_buckets, c, MinuteWindow)) <= requests_per_minute
            /\ Len(LiveIn(hour_buckets, c, HourWindow)) <= requests_per_hour)
    /\ [][Bucketed =>
            \E c \in Peers :
               LET minute == LiveIn(minute_buckets, c, MinuteWindow)
                   hour == LiveIn(hour_buckets, c, HourWindow)
                   room == /\ Len(minute) < requests_per_minute
                           /\ Len(hour) < requests_per_hour
               IN  /\ c \in DOMAIN minute_buckets' \cap DOMAIN hour_buckets'
                   /\ ~gate_result'.raised <=> room
                   /\ minute_buckets'[c] =
                         IF room THEN Append(minute, unix_time) ELSE minute
                   /\ hour_buckets'[c] =
                         IF room THEN Append(hour, unix_time) ELSE hour
                   /\ \A other \in DOMAIN minute_buckets \ {c} :
                         /\ minute_buckets'[other] = minute_buckets[other]
                         /\ hour_buckets'[other] = hour_buckets[other]]_vars

\* a request was admitted a minute after an earlier one of the same client:
\* the minute bucket holds the new timestamp alone, the hour bucket both,
\* while the other client's buckets are full for the minute
C24_Witness ==
    /\ gate_result = returned("check_rate_limit", TRUE, FALSE)
    /\ \E c, other \in DOMAIN minute_buckets :
          /\ unix_time > 0
          /\ minute_buckets[c] = <<unix_time>>
          /\ Len(hour_buckets[c]) = 2
          /\ hour_buckets[c][1] < unix_time
          /\ hour_buckets[c][2] = unix_time
          /\ other # c
          /\ Len(minute_buckets[other]) = requests_per_minute

\* the generations of backend llm that have been started and not yet
\* returned from: callers suspended in the awaited backend call
InFlight(llm) == {c \in Callers : call[c].at = "await" /\ call[c].llm = llm}

(***************************************************************************)
(* C25 as stated, for the first 60-second span: while the clock has not    *)
(* passed the first LlmWindow seconds every generation started so far was  *)
(* started within one span, so the generations recorded for a backend and  *)
(* those in flight on it are together at most its requests_per_minute,     *)
(* under any interleaving of concurrent generate_response calls.           *)
(***************************************************************************)
C25_NeverOverLimit ==
    \A llm \in Backends :
        unix_time < LlmWindow =>
           Len(request_history[llm]) + Cardinality(InFlight(llm))
              <= rate_limits[llm]

\* the time.time() reading at which the entry was inserted
StoredAt(entry) == entry.origin.timestamp.at

(***************************************************************************)
(* C26: a cache hit in process_query_fast returns the stored answer        *)
(* without going to the backend and without changing the timestamp of the  *)
(* entry (or anything of another entry); the TTL runs from the insertion,  *)
(* not from the last read: a lookup cache_ttl seconds or more after the    *)
(* insertion misses, however often the entry has been read since.          *)
(***************************************************************************)
C26_HitKeepsTimestamp ==
    [][\A r \in Asking :
          Looks(r) =>
             LET cache_key == asked'[r].cache_key
                 i == index_of(cache, cache_key)
             IN  /\ Hits(r) =>
                      /\ i # 0
                      /\ Len(cache') = Len(cache)
                      /\ cache'[i].key = cache_key
                      /\ cache'[i].data.timestamp = cache[i].data.timestamp
                      /\ cache'[i].data.timestamp.at = StoredAt(cache[i])
                      /\ cache'[i].data.answer = cache[i].data.answer
                      /\ \A j \in 1..Len(cache) : j # i => cache'[j] = cache[j]
                      /\ unix_time - StoredAt(cache[i]) < cache_ttl
                 /\ (i # 0 /\ unix_time - StoredAt(cache[i]) >= cache_ttl) =>
                      /\ asked'[r].at = "await"
                      /\ cache' = cache]_vars

\* an entry stored at 0 and read since is cache_ttl old, and the lookup of
\* its key has just missed and awaits the backend
C26_Witness ==
    \E r \in Asking :
        /\ asked[r].at = "await"
        /\ asked[r].stale
        /\ asked[r].cache_key \in Keys(cache)
        /\ Entry(cache, asked[r].cache_key).data.from_cache
        /\ StoredAt(Entry(cache, asked[r].cache_key)) = 0
        /\ unix_time = cache_ttl

\* this step is a successful login
LogsIn ==
    /\ "session_id" \in DOMAIN auth_result'
    /\ sessions' # sessions \/ auth_result' # auth_result

\* this step is a logout that removed a session
Removes == auth_result' = logged_out /\ sessions' # sessions

(***************************************************************************)
(* C27 as stated: after any sequence of login and logout calls, every      *)
(* successful login stores its session under a session_id that is not in   *)
(* use and leaves every live session as it was, so that the sessions grow  *)
(* by one with every successful login and shrink by one with every logout  *)
(* that removes a session.                                                 *)
(***************************************************************************)
C27_LoginNeverOverwrites ==
    [][/\ LogsIn =>
            /\ auth_result'.session_id \notin Keys(sessions)
            /\ Len(sessions') = Len(sessions) + 1
            /\ \A i \in 1..Len(sessions) : sessions'[i] = sessions[i]
       /\ Removes => Len(sessions') = Len(sessions) - 1]_vars

\* the outcome of the decorator for the request that carried token
Outcome(token) == auth_result = require_auth_result(Bearer(token))

\* token was issued for a user of the module-level auth_system and has not
\* expired
Valid(token) ==
    /\ "jwt" \in DOMAIN token
    /\ token.jwt.exp > now
    /\ token.jwt.email \in DOMAIN users_db

(***************************************************************************)
(* C28 as stated: a request carrying an unexpired token issued by login    *)
(* for a user of the module-level auth_system passes require_auth and      *)
(* reaches the handler with that user as request.current_user; a request   *)
(* with no header, an invalid or expired token, or the token of an unknown *)
(* user is answered 401 and the handler does not run.                      *)
(***************************************************************************)
C28_ValidTokenPasses ==
    (auth_result # None /\ auth_result.op = "require_auth") =>
       /\ \A i \in 1..Len(sessions) :
             (Valid(sessions[i].token) /\ Outcome(sessions[i].token)) =>
                /\ auth_result.status = 200
                /\ auth_result.current_user.user_id = sessions[i].user_id
       /\ \A token \in Held :
             (~Valid(token) /\ Outcome(token)) => auth_result.status = 401
       /\ auth_result = require_auth_result(NoHeader)
             => auth_result.status = 401

\* this step is a register_user call that ended with the given outcome
Registers(outcome) == auth_result' = outcome /\ auth_result' # auth_result

(***************************************************************************)
(* C29: after any sequence of register_user calls distinct users have      *)
(* distinct user_ids (the emails are the keys of users_db); a registration *)
(* adds exactly one user under an email that was not registered and leaves *)
(* every other user as it was; registering an email that is registered     *)
(* returns success False and leaves users_db unchanged, password hash,     *)
(* plan and usage counter included.                                        *)
(***************************************************************************)
C29_RegistrationUnique ==
    /\ [](\A e1, e2 \in DOMAIN users_db :
            e1 # e2 => users_db[e1].user_id # users_db[e2].user_id)
    /\ [][Registers(user_exists) => users_db' = users_db]_vars
    /\ [][\A user_id \in 1..Cardinality(Emails) :
            Registers(registered(user_id)) =>
               \E email \in Emails \ DOMAIN users_db :
                  /\ DOMAIN users_db' = DOMAIN users_db \cup {email}
                  /\ users_db'[email].user_id = user_id
                  /\ \A e \in DOMAIN users_db : users_db'[e] = users_db[e]]_vars

\* the registration of a registered email was refused while both users
\* exist, one of them on a paid plan and one with a request counted today
C29_Witness ==
    /\ auth_result = user_exists
    /\ DOMAIN users_db = Emails
    /\ \E e \in Emails : users_db[e].plan \in PaidPlans
    /\ \E e \in Emails : users_db[e].daily_count > 0
    /\ \A e \in Emails : users_db[e].password = hash_password("pw")

(***************************************************************************)
(* C30: update_user_plan changes the stored plan of one user and nothing   *)
(* else of users_db: no daily_count and no last_reset; and the decision of *)
(* check_rate_limit, also that of a request which was authenticated before *)
(* the change, compares the stored daily_count with the quota of the plan  *)
(* stored at that moment and reports that plan.                            *)
(***************************************************************************)
C30_PlanChangeAtNextCheck ==
    /\ [][plan_changes' # plan_changes =>
            /\ DOMAIN users_db' = DOMAIN users_db
            /\ \A e \in DOMAIN users_db :
                  /\ users_db'[e].daily_count = users_db[e].daily_count
                  /\ users_db'[e].last_reset = users_db[e].last_reset
                  /\ users_db'[e].user_id = users_db[e].user_id
            /\ Cardinality({e \in DOMAIN users_db :
                               users_db'[e] # users_db[e]}) <= 1]_vars
    /\ [][\A p \in Handlers :
            Takes(p, "decide") =>
               LET user == users_db[EmailOf(p)]
               IN  /\ rate_check'[p].plan = user.plan
                   /\ rate_check'[p].limit = limit_of(user.plan)
                   /\ rate_check'[p].used = user.daily_count
                   /\ rate_check'[p].success
                        <=> user.daily_count < limit_of(user.plan)]_vars

\* a request authenticated on the free plan, with the free quota used up, was
\* admitted under the quota of the plan bought while it was in flight
C30_Witness ==
    \E p \in Handlers :
        /\ Admitted(p)
        /\ current_user[p].plan = "free"
        /\ rate_check[p].plan = "business"
        /\ rate_check[p].success
        /\ rate_check[p].used >= limit_of("free")
        /\ rate_check[p].limit = limit_of("business")
        /\ plan_changes > 0
=============================================================================
